---------------------------- MODULE Spec2Model ----------------------------
(***************************************************************************)
(* The Express API server (src/unnamed/part_000): the flat-file credential *)
(* store (readDB / writeDB), the JWT middleware (authenticateToken) and    *)
(* the four handlers POST /auth/register, POST /auth/login, GET /auth/me   *)
(* and POST /notifications/withdraw.                                       *)
(*                                                                         *)
(* Every handler is an async function: it runs synchronously up to each    *)
(* `await` and is resumed later, so one action of the model is one         *)
(* synchronous segment of a handler, and segments of different requests    *)
(* interleave freely.  A file read and a file write are one atomic step    *)
(* each.  Request bodies carry string fields; an absent field and the      *)
(* empty string are both falsy and are both written "".                    *)
(*                                                                         *)
(* Spec      all four routes, requests handled concurrently                *)
(* SeqSpec   all four routes, one request at a time                        *)
(* ClockSpec the authentication routes, concurrently, with the clock       *)
(*           advancing past the lifetime of a token                        *)
(* FaultSpec all four routes, concurrently, where fs.readFile and          *)
(*           fs.writeFile may fail and db.json may lack its users array    *)
(***************************************************************************)
EXTENDS Integers, Sequences, FiniteSets, TLC

\* ------------------------------------------------------------- bounds
\* Number of HTTP requests handled in one run (request slots 1..NReq).
NReq == 3
\* The clock runs from 0 to MaxTime, in days.
MaxTime == 1

\* ---------------------------------------------------------- constants
\* jwt.sign(..., { expiresIn: '1d' }): lifetime of a token, in days.
TokenTTL == 1
\* bcrypt.hash(password, 10): the cost factor.
BcryptCost == 10
\* process.env.JWT_SECRET || 'fallback-secret-key'
JWT_SECRET == "fallback-secret-key"

Reqs == 1..NReq

\* ------------------------------------------------------------- inputs
\* Bodies of POST /auth/register ("" is a missing field).
RegisterBodies ==
  { [op |-> "register", name |-> "Alice", email |-> "a@x.com", password |-> "pw123"],
    [op |-> "register", name |-> "Bob",   email |-> "b@x.com", password |-> "hunter2"],
    [op |-> "register", name |-> "",      email |-> "a@x.com", password |-> "pw123"],
    [op |-> "register", name |-> "Alice", email |-> "",        password |-> "pw123"],
    [op |-> "register", name |-> "Alice", email |-> "a@x.com", password |-> ""] }

\* Bodies of POST /auth/login.
LoginBodies ==
  { [op |-> "login", email |-> "a@x.com", password |-> "pw123"],
    [op |-> "login", email |-> "a@x.com", password |-> "wrong"],
    [op |-> "login", email |-> "",        password |-> "pw123"],
    [op |-> "login", email |-> "a@x.com", password |-> ""] }

\* Bodies of POST /notifications/withdraw.
NotifyBodies ==
  { [op |-> "notify", amount |-> "100", address |-> "abc"],
    [op |-> "notify", amount |-> "",    address |-> "abc"],
    [op |-> "notify", amount |-> "100", address |-> ""] }

VARIABLES
  disk,    \* the file db.json: [exists, hasUsers, rows]
  mtime,   \* number of completed writes of db.json (the file's version)
  env,     \* process.env: [botToken, chatId], "" when not configured
  now,     \* the clock, in days
  alive,   \* the Node process is running
  serial,  \* the clients send a request only after the previous one is answered
  pc,      \* pc[r]: where request r's handler stands
  req,     \* req[r]: the request being handled (body or Authorization header);
           \* once it is answered only its route is kept
  loc,     \* loc[r]: the running handler's local variables db and user / newUser
  resp,    \* resp[r]: the response sent to r
  fx       \* fx[r]: what r did to the outside: the numbers of its file reads,
           \* file writes and outbound calls, and the file versions it read and wrote

vars == <<disk, mtime, env, now, alive, serial, serial, pc, req, loc, resp, fx>>

\* ------------------------------------------------------ the data model
\* JS truthiness of a string field: !v holds for undefined and for "".
Falsy(v) == v = ""

\* interface User { id, name, email, passwordHash }; NoUser is `undefined`.
NoUser == [id |-> 0, name |-> "", email |-> "", passwordHash |-> <<>>]

\* The object readDB returns: hasUsers tells whether it has a `users` array.
EmptyDB == [hasUsers |-> TRUE, users |-> <<>>]

\* JSON.stringify(data, null, 2): the users array written out, one row of
\* field values per user, in order.
Stringify(db) ==
  [i \in 1..Len(db.users) |->
     <<db.users[i].id, db.users[i].name, db.users[i].email, db.users[i].passwordHash>>]

\* JSON.parse(data): rows back to an object with a users array.
Parse(rows) ==
  [hasUsers |-> TRUE,
   users |-> [i \in 1..Len(rows) |->
                [id |-> rows[i][1], name |-> rows[i][2],
                 email |-> rows[i][3], passwordHash |-> rows[i][4]]]]

\* Mutant of ReadDB: the file is looked up at a wrong path and is never found.
ReadDB_WrongPath(d, ok) == EmptyDB

\* readDB: the parsed file; a missing or unreadable file (ok = FALSE is a
\* failing fs.readFile) is swallowed into { users: [] }.  A file that parses
\* to an object without `users` is returned as it is.
ReadDB(d, ok) ==
  IF ok /\ d.exists
    THEN IF d.hasUsers THEN Parse(d.rows) ELSE [hasUsers |-> FALSE, users |-> <<>>]
    ELSE EmptyDB

\* Mutant of WriteDB: the new record is appended to the file as it stands
\* instead of the file being overwritten with the handler's snapshot.
WriteDB_Append(d, db) ==
  [exists |-> TRUE, hasUsers |-> TRUE,
   rows |-> (IF d.exists /\ d.hasUsers THEN d.rows ELSE <<>>)
              \o SubSeq(Stringify(db), Len(db.users), Len(db.users))]

\* writeDB: the whole file is overwritten with the serialized object.
WriteDB(d, db) == [exists |-> TRUE, hasUsers |-> TRUE, rows |-> Stringify(db)]

\* Array.prototype.find: the first element satisfying the test, or undefined.
FirstIndex(I) == CHOOSE i \in I : \A j \in I : i <= j

\* Mutant of FindByEmail: the lookup compares the wrong field.
FindByEmail_ByName(users, email) ==
  LET I == {i \in 1..Len(users) : users[i].name = email}
  IN  IF I = {} THEN NoUser ELSE users[FirstIndex(I)]

\* db.users.find(user => user.email === email)
FindByEmail(users, email) ==
  LET I == {i \in 1..Len(users) : users[i].email = email}
  IN  IF I = {} THEN NoUser ELSE users[FirstIndex(I)]

\* db.users.find(u => u.id === userId)
FindById(users, id) ==
  LET I == {i \in 1..Len(users) : users[i].id = id}
  IN  IF I = {} THEN NoUser ELSE users[FirstIndex(I)]

\* bcrypt.hash(password, 10): a one-way digest under the cost factor.
BcryptHash(password) == <<"$2a$", BcryptCost, password>>

\* Mutant of BcryptCompare: the promise is not awaited and is always truthy.
BcryptCompare_NotAwaited(password, hash) == TRUE

\* bcrypt.compare(password, hash)
BcryptCompare(password, hash) == hash = <<"$2a$", hash[2], password>>

\* { id, name, email }: the public view of a user, and the token's payload.
UserPayload(u) == [id |-> u.id, name |-> u.name, email |-> u.email]
NoPayload == [id |-> 0, name |-> "", email |-> ""]

\* The HMAC of a token body under a key.
Mac(key, body) == <<key, body>>

\* jwt.sign(payload, secret, { expiresIn: '1d' }) at time t.
JwtSign(payload, secret, t) ==
  LET body == [id |-> payload.id, name |-> payload.name,
               email |-> payload.email, exp |-> t + TokenTTL]
  IN  [body |-> body, sig |-> Mac(secret, body)]

NoToken == [body |-> [id |-> 0, name |-> "", email |-> "", exp |-> 0], sig |-> <<>>]

\* jwt.verify(token, secret) at time t: the signature matches the body and
\* the token has not expired (the empty string NoToken is rejected).
JwtVerify(token, secret, t) ==
  /\ token # NoToken
  /\ token.sig = Mac(secret, token.body)
  /\ t < token.body.exp

\* The Authorization header: absent, the empty string, a scheme alone
\* ("Bearer"), or "Bearer <token>".
NoHeader     == [op |-> "me", kind |-> "absent", token |-> NoToken]
EmptyHeader  == [op |-> "me", kind |-> "empty",  token |-> NoToken]
SchemeHeader == [op |-> "me", kind |-> "scheme", token |-> NoToken]
BearerHeader(t) == [op |-> "me", kind |-> "bearer", token |-> t]

\* const token = authHeader && authHeader.split(' ')[1];  token == null
\* holds when the header is absent (authHeader is undefined) or has no
\* second part; an empty header makes the && yield "", which is not null.
TokenIsNull(header) == header.kind \in {"absent", "scheme"}

\* The `token` the middleware hands to jwt.verify ("" is NoToken).
BearerToken(header) == IF header.kind = "bearer" THEN header.token ELSE NoToken

\* Mutant of Configured: the chat id is not checked.
Configured_BotTokenOnly(e) == ~Falsy(e.botToken)

\* process.env.TELEGRAM_BOT_TOKEN / TELEGRAM_CHAT_ID are both set.
Configured(e) == ~Falsy(e.botToken) /\ ~Falsy(e.chatId)

\* ----------------------------------------------------------- responses
NoResp == [status |-> 0, message |-> "", user |-> NoPayload, token |-> NoToken]

\* res.status(s).json({ message })
Message(s, m) == [status |-> s, message |-> m, user |-> NoPayload, token |-> NoToken]

\* res.status(s).json({ user, token })
Session(s, u, t) == [status |-> s, message |-> "", user |-> u, token |-> t]

NoReq == [op |-> "none"]
NoLoc == [db |-> EmptyDB, user |-> NoUser]
NoFx  == [reads |-> 0, writes |-> 0, calls |-> 0, readAt |-> 0, wroteAt |-> 0]

\* ------------------------------------------------------- initial state
\* A fresh deployment has no db.json; with malformed, the file may instead
\* hold an object that has no users array.
InitDisk(malformed) ==
  {[exists |-> FALSE, hasUsers |-> TRUE, rows |-> <<>>]}
  \cup (IF malformed THEN {[exists |-> TRUE, hasUsers |-> FALSE, rows |-> <<>>]} ELSE {})

\* dotenv.config(): the Telegram credentials, set or not.
Environments ==
  { [botToken |-> "bot-token", chatId |-> "chat-id"],
    [botToken |-> "bot-token", chatId |-> ""],
    [botToken |-> "",          chatId |-> ""] }

InitWith(malformed, oneAtATime) ==
  /\ disk \in InitDisk(malformed)
  /\ mtime = 0
  /\ env \in Environments
  /\ now = 0
  /\ alive = TRUE
  /\ serial = oneAtATime
  /\ pc = [r \in Reqs |-> "idle"]
  /\ req = [r \in Reqs |-> NoReq]
  /\ loc = [r \in Reqs |-> NoLoc]
  /\ resp = [r \in Reqs |-> NoResp]
  /\ fx = [r \in Reqs |-> NoFx]

Init == InitWith(FALSE, FALSE)

\* ------------------------------------------------------------- helpers
\* No other request is in flight.
Alone(r) == \A q \in Reqs \ {r} : pc[q] \in {"idle", "done"}

\* Request r arrives: requests take the slots in the order they arrive, and
\* serial clients wait until no other request is in flight.
Arrives(r) ==
  /\ alive
  /\ pc[r] = "idle"
  /\ IF r = 1 THEN TRUE ELSE pc[r - 1] # "idle"
  /\ serial => Alone(r)

\* Request r's handler is resumed at label l.
At(r, l) == alive /\ pc[r] = l

\* The route of a request.
Route(request) == [op |-> request.op]

\* res.json(...): the response is sent and the handler returns.
Reply(r, response) ==
  /\ resp' = [resp EXCEPT ![r] = response]
  /\ pc' = [pc EXCEPT ![r] = "done"]

\* The handler awaits its next I/O at label l.
Await(r, l) ==
  /\ pc' = [pc EXCEPT ![r] = l]
  /\ resp' = resp

\* The async handler throws: its promise rejects, Express 4 does not observe
\* it, and no response is ever sent.
Reject(r) ==
  /\ pc' = [pc EXCEPT ![r] = "rejected"]
  /\ resp' = resp

\* The handler has returned or thrown: its request and locals are dropped.
Ended(r) ==
  /\ req' = [req EXCEPT ![r] = Route(@)]
  /\ loc' = [loc EXCEPT ![r] = NoLoc]

\* One more readDB call by r, at file version mtime.
CountRead(r) ==
  fx' = [fx EXCEPT ![r].reads = @ + 1, ![r].readAt = mtime]

\* --------------------------------------------------- POST /auth/register
\* Mutant of RegisterBegin: readDB is called before the fields are validated.
RegisterBegin_ReadFirst(r, body) ==
  /\ Arrives(r)
  /\ IF Falsy(body.name) \/ Falsy(body.email) \/ Falsy(body.password)
       THEN /\ Reply(r, Message(400, "Name, email, and password are required"))
            /\ req' = [req EXCEPT ![r] = Route(body)]
            /\ CountRead(r)
       ELSE /\ Await(r, "reg_read")
            /\ req' = [req EXCEPT ![r] = body]
            /\ fx' = fx
  /\ UNCHANGED <<disk, mtime, env, now, alive, serial, loc>>

\* Lines 75-81: the fields are validated, then readDB is called.
RegisterBegin(r, body) ==
  /\ Arrives(r)
  /\ IF Falsy(body.name) \/ Falsy(body.email) \/ Falsy(body.password)
       THEN /\ Reply(r, Message(400, "Name, email, and password are required"))
            /\ req' = [req EXCEPT ![r] = Route(body)]
       ELSE /\ Await(r, "reg_read")
            /\ req' = [req EXCEPT ![r] = body]
  /\ UNCHANGED <<disk, mtime, env, now, alive, serial, loc, fx>>

\* Lines 81-87: readDB resolves; the uniqueness check; bcrypt.hash is called.
RegisterRead(r, ok) ==
  /\ At(r, "reg_read")
  /\ CountRead(r)
  /\ LET db == ReadDB(disk, ok)
     IN  IF ~db.hasUsers
           THEN Reject(r) /\ Ended(r)
           ELSE IF FindByEmail(db.users, req[r].email) # NoUser
             THEN /\ Reply(r, Message(409, "User with this email already exists"))
                  /\ Ended(r)
             ELSE /\ Await(r, "reg_hash")
                  /\ loc' = [loc EXCEPT ![r].db = db]
                  /\ req' = req
  /\ UNCHANGED <<disk, mtime, env, now, alive, serial>>

\* uuidv4(): an id no other user has.  Every request creates at most one user,
\* so the id drawn by request r is written r.
Uuid(r) == r

\* Lines 87-96: bcrypt.hash resolves; the new user gets a fresh id and is
\* pushed onto the snapshot this handler read; writeDB is called.
RegisterHash(r) ==
  /\ At(r, "reg_hash")
  /\ LET newUser == [id |-> Uuid(r), name |-> req[r].name, email |-> req[r].email,
                     passwordHash |-> BcryptHash(req[r].password)]
     IN  loc' = [loc EXCEPT ![r].db.users = Append(@, newUser), ![r].user = newUser]
  /\ Await(r, "reg_write")
  /\ UNCHANGED <<disk, mtime, env, now, alive, serial, req, fx>>

\* Lines 96-101: writeDB resolves and the token is signed and sent; a failing
\* fs.writeFile (ok = FALSE) rejects the handler.
RegisterWrite(r, ok) ==
  /\ At(r, "reg_write")
  /\ IF ok
       THEN /\ disk' = WriteDB(disk, loc[r].db)
            /\ mtime' = mtime + 1
            /\ fx' = [fx EXCEPT ![r].writes = @ + 1, ![r].wroteAt = mtime + 1]
            /\ LET userPayload == UserPayload(loc[r].user)
               IN  Reply(r, Session(201, userPayload, JwtSign(userPayload, JWT_SECRET, now)))
       ELSE /\ Reject(r)
            /\ UNCHANGED <<disk, mtime, fx>>
  /\ Ended(r)
  /\ UNCHANGED <<env, now, alive, serial>>

\* ------------------------------------------------------ POST /auth/login
\* Lines 107-113.
LoginBegin(r, body) ==
  /\ Arrives(r)
  /\ IF Falsy(body.email) \/ Falsy(body.password)
       THEN /\ Reply(r, Message(400, "Email and password are required"))
            /\ req' = [req EXCEPT ![r] = Route(body)]
       ELSE /\ Await(r, "login_read")
            /\ req' = [req EXCEPT ![r] = body]
  /\ UNCHANGED <<disk, mtime, env, now, alive, serial, loc, fx>>

\* Lines 113-120: readDB resolves; lookup by email; bcrypt.compare is called.
LoginRead(r, ok) ==
  /\ At(r, "login_read")
  /\ CountRead(r)
  /\ LET db == ReadDB(disk, ok)
         user == FindByEmail(db.users, req[r].email)
     IN  IF ~db.hasUsers
           THEN Reject(r) /\ Ended(r)
           ELSE IF user = NoUser
             THEN Reply(r, Message(401, "Invalid credentials")) /\ Ended(r)
             ELSE /\ Await(r, "login_compare")
                  /\ loc' = [loc EXCEPT ![r].user = user]
                  /\ req' = req
  /\ UNCHANGED <<disk, mtime, env, now, alive, serial>>

\* Lines 120-128: bcrypt.compare resolves.
LoginCompare(r) ==
  /\ At(r, "login_compare")
  /\ IF ~BcryptCompare(req[r].password, loc[r].user.passwordHash)
       THEN Reply(r, Message(401, "Invalid credentials"))
       ELSE LET userPayload == UserPayload(loc[r].user)
            IN  Reply(r, Session(200, userPayload, JwtSign(userPayload, JWT_SECRET, now)))
  /\ Ended(r)
  /\ UNCHANGED <<disk, mtime, env, now, alive, serial, fx>>

\* --------------------------------------------------------- GET /auth/me
\* Tokens a client can hold: those the server has sent.
IssuedTokens == {resp[q].token : q \in Reqs} \ {NoToken}

\* A token whose payload was altered after signing.
Tamper(t) == [t EXCEPT !.body.email = "evil@x.com"]

\* The Authorization headers a client can send.
Headers ==
  {NoHeader, EmptyHeader, SchemeHeader}
    \cup {BearerHeader(t) : t \in IssuedTokens}
    \cup {BearerHeader(Tamper(t)) : t \in IssuedTokens}

\* Lines 49-64, then 134-135: authenticateToken; on success next() runs the
\* handler, which calls readDB.
MeBegin(r, header) ==
  /\ Arrives(r)
  /\ IF TokenIsNull(header)
       THEN /\ Reply(r, Message(401, "Token not provided"))
            /\ req' = [req EXCEPT ![r] = Route(header)]
       ELSE IF ~JwtVerify(BearerToken(header), JWT_SECRET, now)
         THEN /\ Reply(r, Message(403, "Invalid token"))
              /\ req' = [req EXCEPT ![r] = Route(header)]
         ELSE /\ Await(r, "me_read")
              /\ req' = [req EXCEPT ![r] = header]
  /\ UNCHANGED <<disk, mtime, env, now, alive, serial, loc, fx>>

\* Lines 135-143: readDB resolves; lookup by the id of the token's claims.
MeRead(r, ok) ==
  /\ At(r, "me_read")
  /\ CountRead(r)
  /\ LET db == ReadDB(disk, ok)
         user == FindById(db.users, req[r].token.body.id)
     IN  IF ~db.hasUsers
           THEN Reject(r)
           ELSE IF user = NoUser
             THEN Reply(r, Message(404, "User not found"))
             ELSE Reply(r, Session(200, UserPayload(user), NoToken))
  /\ Ended(r)
  /\ UNCHANGED <<disk, mtime, env, now, alive, serial>>

\* ------------------------------------------- POST /notifications/withdraw
\* Lines 149-175: field check, configuration check, then axios.post is called.
NotifyBegin(r, body) ==
  /\ Arrives(r)
  /\ IF Falsy(body.amount) \/ Falsy(body.address)
       THEN /\ Reply(r, Message(400, "Amount and address are required."))
            /\ req' = [req EXCEPT ![r] = Route(body)]
            /\ fx' = fx
       ELSE IF ~Configured(env)
         THEN /\ Reply(r, Message(500, "Server configuration error."))
              /\ req' = [req EXCEPT ![r] = Route(body)]
              /\ fx' = fx
         ELSE /\ Await(r, "notify_wait")
              /\ req' = [req EXCEPT ![r] = body]
              /\ fx' = [fx EXCEPT ![r].calls = @ + 1]
  /\ UNCHANGED <<disk, mtime, env, now, alive, serial, loc>>

\* Lines 175-184: axios.post resolves (delivered) or throws into the catch.
NotifyDone(r, delivered) ==
  /\ At(r, "notify_wait")
  /\ IF delivered
       THEN Reply(r, Message(200, "Notification sent successfully."))
       ELSE Reply(r, Message(500, "Failed to send notification."))
  /\ Ended(r)
  /\ UNCHANGED <<disk, mtime, env, now, alive, serial, fx>>

\* ------------------------------------------------------------ the clock
Tick ==
  /\ alive
  /\ now < MaxTime
  /\ now' = now + 1
  /\ UNCHANGED <<disk, mtime, env, alive, serial, pc, req, loc, resp, fx>>

\* An unhandled promise rejection ends the Node process (the default since
\* Node 15); before that it only warns and the request stays unanswered.
Crash(r) ==
  /\ At(r, "rejected")
  /\ alive' = FALSE
  /\ UNCHANGED <<disk, mtime, env, now, serial, pc, req, loc, resp, fx>>

\* ------------------------------------------------------- specifications
\* One segment of an authentication handler, with file operations succeeding.
HandleAuth(r) ==
  \/ \E body \in RegisterBodies : RegisterBegin(r, body)
  \/ RegisterRead(r, TRUE)
  \/ RegisterHash(r)
  \/ RegisterWrite(r, TRUE)
  \/ \E body \in LoginBodies : LoginBegin(r, body)
  \/ LoginRead(r, TRUE)
  \/ LoginCompare(r)
  \/ \E header \in Headers : MeBegin(r, header)
  \/ MeRead(r, TRUE)

\* One segment of the notification handler.
HandleNotify(r) ==
  \/ \E body \in NotifyBodies : NotifyBegin(r, body)
  \/ \E delivered \in BOOLEAN : NotifyDone(r, delivered)

\* A file operation fails, or the process dies of an unhandled rejection.
Fault(r) ==
  \/ RegisterRead(r, FALSE)
  \/ RegisterWrite(r, FALSE)
  \/ LoginRead(r, FALSE)
  \/ MeRead(r, FALSE)
  \/ Crash(r)

\* Requests are handled concurrently: the segments of all four routes
\* interleave.  The run stays within one day (the clock stands still).
Next == \E r \in Reqs : HandleAuth(r) \/ HandleNotify(r)

Spec == Init /\ [][Next]_vars

\* The authentication routes handled concurrently while the clock advances.
ClockNext == (\E r \in Reqs : HandleAuth(r)) \/ Tick

\* The notification route is not served here: one environment is enough.
ClockInit == Init /\ env = [botToken |-> "bot-token", chatId |-> "chat-id"]

ClockSpec == ClockInit /\ [][ClockNext]_vars

\* Requests are handled one at a time: each completes before the next starts.
SeqInit == InitWith(FALSE, TRUE)

SeqSpec == SeqInit /\ [][Next]_vars

\* Concurrent handling where file operations may fail and db.json may be
\* malformed.
FaultNext == \E r \in Reqs : HandleAuth(r) \/ HandleNotify(r) \/ Fault(r)

FaultInit == InitWith(TRUE, FALSE)

FaultSpec == FaultInit /\ [][FaultNext]_vars

\* --------------------------------------------------------- observations
\* The user records of the persisted snapshot.
Stored(d) == IF d.exists /\ d.hasUsers THEN Parse(d.rows).users ELSE <<>>

\* The positions of the records of snapshot d with a given email.
WithEmail(d, email) == {i \in 1..Len(Stored(d)) : Stored(d)[i].email = email}

\* A record with this id is persisted.
OnDisk(id) == \E i \in 1..Len(Stored(disk)) : Stored(disk)[i].id = id

\* Request q was a register answered 201.
Registered(q) == req[q].op = "register" /\ resp[q].status = 201

\* r1 and r2 registered the same email, and each read the store before the
\* other wrote it: both passed the uniqueness check before either write.
Raced(r1, r2) ==
  /\ r1 # r2
  /\ Registered(r1)
  /\ Registered(r2)
  /\ resp[r1].user.email = resp[r2].user.email
  /\ fx[r1].readAt < fx[r2].wroteAt
  /\ fx[r2].readAt < fx[r1].wroteAt

\* Request r leaves label l in this step.
Leaves(r, l) == pc[r] = l /\ pc'[r] # l

InvalidCredentials == Message(401, "Invalid credentials")

\* ------------------------------------------------------------------ C1
\* C1: in every reachable state no two user records of the persisted
\* snapshot have the same email, whatever the interleaving of requests.
C1_UniqueEmails ==
  \A i, j \in 1..Len(Stored(disk)) :
    i # j => Stored(disk)[i].email # Stored(disk)[j].email

\* Two registrations of one email raced and both were answered 201.
C1_Witness ==
  \E r1, r2 \in Reqs : Raced(r1, r2) /\ Len(Stored(disk)) >= 1

\* ------------------------------------------------------------------ C2
\* C2 as stated: when two registers of the same email have both passed the
\* uniqueness check before either wrote, and both have written, the persisted
\* snapshot contains two records with that email.
C2_RaceLeavesDuplicate ==
  \A r1, r2 \in Reqs :
    Raced(r1, r2) => Cardinality(WithEmail(disk, resp[r1].user.email)) >= 2

\* C2 amended: two such registers are both answered 201, but each writes the
\* snapshot it read plus its own record, so the later write replaces the
\* earlier one: the persisted snapshot never holds both records, and holds at
\* most one record with that email.
C2_RaceKeepsAtMostOne ==
  \A r1, r2 \in Reqs :
    Raced(r1, r2) =>
      /\ ~(OnDisk(resp[r1].user.id) /\ OnDisk(resp[r2].user.id))
      /\ Cardinality(WithEmail(disk, resp[r1].user.email)) <= 1

\* Both racing registers have been answered 201 and one record survives.
C2_Witness ==
  \E r1, r2 \in Reqs :
    /\ Raced(r1, r2)
    /\ Cardinality(WithEmail(disk, resp[r1].user.email)) = 1

\* ------------------------------------------------------------------ C3
\* C3: with requests handled one at a time, a register whose email equals a
\* stored record's is answered 409 and leaves the snapshot unchanged; one whose
\* email matches no stored record goes on, is answered 201 and appends exactly
\* one record, with its name and email, at the end of users.
C3_SequentialRegister ==
  [][\A r \in Reqs :
       /\ Leaves(r, "reg_read") =>
            IF WithEmail(disk, req[r].email) # {}
              THEN /\ resp'[r] = Message(409, "User with this email already exists")
                   /\ pc'[r] = "done"
                   /\ disk' = disk
              ELSE /\ pc'[r] = "reg_hash"
                   /\ resp'[r] = NoResp
       /\ Leaves(r, "reg_write") =>
            /\ resp'[r].status = 201
            /\ WithEmail(disk, req[r].email) = {}
            /\ Len(Stored(disk')) = Len(Stored(disk)) + 1
            /\ SubSeq(Stored(disk'), 1, Len(Stored(disk))) = Stored(disk)
            /\ Stored(disk')[Len(Stored(disk'))].name = req[r].name
            /\ Stored(disk')[Len(Stored(disk'))].email = req[r].email
            /\ resp'[r].user =
                 UserPayload(Stored(disk')[Len(Stored(disk'))])]_vars

\* Two distinct emails were registered and a second registration of one of
\* them was answered 409.
C3_Witness ==
  /\ Len(Stored(disk)) = 2
  /\ Stored(disk)[1].email # Stored(disk)[2].email
  /\ \E r \in Reqs : req[r].op = "register" /\ resp[r].status = 409

\* ------------------------------------------------------------------ C4
\* The tokens returned by registers answered 201.
RegisterTokens == {resp[q].token : q \in {q \in Reqs : Registered(q)}}

\* C4: a GET /auth/me presenting the token of a register answered 201, which
\* has passed verification, is answered 200 with the id, name and email of
\* that registration, whatever other requests were handled meanwhile.
C4_RegisteredTokenResolves ==
  [][\A r \in Reqs :
       (Leaves(r, "me_read") /\ req[r].token \in RegisterTokens) =>
         resp'[r] = Session(200, [id |-> req[r].token.body.id,
                                  name |-> req[r].token.body.name,
                                  email |-> req[r].token.body.email], NoToken)]_vars

\* ------------------------------------------------------------------ C5
\* C5: a record once persisted stays: every step leaves the records of the
\* persisted snapshot in place and at most appends to them.
C5_RecordsNeverLost ==
  [][/\ Len(Stored(disk')) >= Len(Stored(disk))
     /\ SubSeq(Stored(disk'), 1, Len(Stored(disk))) = Stored(disk)]_vars

\* ------------------------------------------------------------------ C6
\* C6: no error is fatal and every request is answered: the process stays
\* alive, and a handler that has ended has sent a response.
C6_EveryRequestAnswered ==
  /\ alive
  /\ \A r \in Reqs : pc[r] \in {"done", "rejected"} => resp[r].status # 0

\* ------------------------------------------------------------------ C7
\* C7: a login with both fields whose email matches no stored record, and one
\* whose password does not match the stored record's hash, get the identical
\* response 401 'Invalid credentials'; a login is answered 200 only when the
\* record stored under its email has the hash of its password, and then the
\* user and the token carry that record's id, name and email.
C7_LoginOutcome ==
  [][\A r \in Reqs :
       /\ Leaves(r, "login_read") =>
            IF WithEmail(disk, req[r].email) = {}
              THEN resp'[r] = InvalidCredentials /\ pc'[r] = "done"
              ELSE /\ resp'[r] = NoResp
                   /\ pc'[r] = "login_compare"
                   /\ \E i \in WithEmail(disk, req[r].email) :
                        loc'[r].user = Stored(disk)[i]
       /\ Leaves(r, "login_compare") =>
            IF loc[r].user.passwordHash = BcryptHash(req[r].password)
              THEN /\ resp'[r].status = 200
                   /\ resp'[r].user = UserPayload(loc[r].user)
                   /\ resp'[r].token.body.id = loc[r].user.id
                   /\ resp'[r].token.body.name = loc[r].user.name
                   /\ resp'[r].token.body.email = loc[r].user.email
                   /\ loc[r].user.email = req[r].email
              ELSE resp'[r] = InvalidCredentials]_vars

\* Logins were refused with 401 and another login was answered 200.
C7_Witness ==
  \E r1, r2 \in Reqs :
    /\ req[r1].op = "login" /\ resp[r1] = InvalidCredentials
    /\ req[r2].op = "login" /\ resp[r2].status = 200 /\ resp[r2].token # NoToken

\* ------------------------------------------------------------------ C8
\* C8: GET /auth/me answers 401 when there is no Authorization header or the
\* header has no second space-separated part, 403 when the token fails the
\* signature or expiry check, in both cases without reading the store; only a
\* verified token leads to the read, which answers 200 {id, name, email} when a
\* record with the claims' id is stored and 404 otherwise.
C8_TokenGate ==
  [][\A r \in Reqs :
       /\ \A header \in Headers :
            MeBegin(r, header) =>
              IF header.kind \in {"absent", "empty", "scheme"}
                THEN /\ resp'[r] = Message(401, "Token not provided")
                     /\ pc'[r] = "done" /\ fx'[r].reads = 0
                ELSE IF ~(/\ header.token.sig = Mac(JWT_SECRET, header.token.body)
                          /\ now < header.token.body.exp)
                  THEN /\ resp'[r] = Message(403, "Invalid token")
                       /\ pc'[r] = "done" /\ fx'[r].reads = 0
                  ELSE /\ resp'[r] = NoResp
                       /\ pc'[r] = "me_read" /\ fx'[r].reads = 0
       /\ Leaves(r, "me_read") =>
            /\ fx'[r].reads = 1
            /\ IF \E i \in 1..Len(Stored(disk)) : Stored(disk)[i].id = req[r].token.body.id
                 THEN \E i \in 1..Len(Stored(disk)) :
                        /\ Stored(disk)[i].id = req[r].token.body.id
                        /\ resp'[r] = Session(200, UserPayload(Stored(disk)[i]), NoToken)
                 ELSE resp'[r] = Message(404, "User not found")]_vars

\* ------------------------------------------------------------------ C9
\* C9: notifyWithdrawal answers 400 without an outbound call when amount or
\* address is missing, whatever the configuration; with both present it
\* answers 500 without a call when bot token or chat id is not configured, and
\* otherwise makes exactly one call, answered 200 when delivered and 500 when
\* the transport fails, with no second attempt.
C9_NotifyCalls ==
  [][\A r \in Reqs :
       /\ \A body \in NotifyBodies :
            NotifyBegin(r, body) =>
              IF body.amount = "" \/ body.address = ""
                THEN /\ resp'[r] = Message(400, "Amount and address are required.")
                     /\ fx'[r].calls = 0
                ELSE IF env.botToken = "" \/ env.chatId = ""
                  THEN /\ resp'[r] = Message(500, "Server configuration error.")
                       /\ fx'[r].calls = 0
                  ELSE /\ resp'[r] = NoResp
                       /\ pc'[r] = "notify_wait"
                       /\ fx'[r].calls = 1
       /\ Leaves(r, "notify_wait") =>
            /\ pc'[r] = "done"
            /\ fx'[r].calls = 1
            /\ resp'[r] \in {Message(200, "Notification sent successfully."),
                             Message(500, "Failed to send notification.")}
       /\ pc[r] = "done" => fx'[r].calls = fx[r].calls]_vars

\* One notification was delivered with one call and another failed in
\* transport, also after one call.
C9_Witness ==
  \E r1, r2 \in Reqs :
    /\ resp[r1] = Message(200, "Notification sent successfully.")
    /\ fx[r1].calls = 1
    /\ resp[r2] = Message(500, "Failed to send notification.")
    /\ fx[r2].calls = 1

=============================================================================
